---- MODULE Spec2Model ----
(***************************************************************************)
(* Model of app.py: the /predict request handler, the immediate e-mail     *)
(* alert, the shared lists dashboard_logs and daily_alert_buffer, and the  *)
(* background summary_worker thread that mails the daily digest.           *)
(*                                                                         *)
(* Threads: one event-loop thread runs the `async def predict` handlers    *)
(* (after `await file.read()` a handler runs to its return without         *)
(* yielding, so handlers never interleave with one another), and one       *)
(* daemon thread runs summary_worker.  The two threads do interleave, at   *)
(* the granularity of the statements that touch the shared lists.          *)
(*                                                                         *)
(* Confidences are integers in units of 1/10000 (0.80 is 8000); file sizes *)
(* are bytes; the timestamp of a record is the value of a logical clock    *)
(* that the summary thread's sleep advances.                               *)
(***************************************************************************)
EXTENDS Integers, Sequences, FiniteSets, TLC

\* ---------------------------------------------------------------- bounds
MaxReqs == 2          \* number of /predict requests in a behaviour
MaxCycles == 2        \* number of times the summary thread wakes
MaxTotal == 32        \* largest frame count of a video given to extract_frames
MaxDays == 2          \* days over which the summary thread's clock is followed
MaxLog == 12          \* entries recorded when dashboard_logs is taken alone
MaxReads == 2         \* number of page requests (home, dashboard) in a behaviour

\* ---------------------------------------------------------------- config
NUM_FRAMES == 8
FRAME_STEP == 4
ALERT_THRESHOLD == 8000
MAX_ATTACHMENT_MB == 22
MB == 1024 * 1024
DAILY_SUMMARY_HOUR == 21
HOME_LIMIT == 10      \* dashboard_logs[:10]
DaySeconds == 86400   \* timedelta(days=1).total_seconds()
HourSeconds == 3600

Reqs == 1 .. MaxReqs

\* ---------------------------------------------------------------- inputs
\* The uploaded videos: total is what CAP_PROP_FRAME_COUNT reports, readable
\* is the number of frames cap.read() decodes before it fails.  The first is
\* a file that cannot be opened (no frame count, every read fails), the second
\* is shorter than the sampling span, the third is longer and stops decoding
\* early.
Videos ==
  { [total |-> 0, readable |-> 0], [total |-> 5, readable |-> 5],
    [total |-> 30, readable |-> 14] }
NoVideo == [total |-> -1, readable |-> -1]
ZeroFrame == -1       \* np.zeros((IMG_SIZE, IMG_SIZE, 3)) in a clip
\* Outputs of the classifier head: (label, unrounded confidence).
Outcomes ==
  { <<"not_suspicious", 9500>>, <<"suspicious", 7900>>,
    <<"suspicious", 7996>>, <<"suspicious", 8000>> }
\* Sizes in bytes of the uploaded file, around the attachment cap.
FileSizes == { 10 * MB, 22 * MB, 22 * MB + 1, 23 * MB }

NoRecord == [ time |-> -1, filename |-> 0, prediction |-> "", confidence |-> 0, alert |-> "" ]
NoResult == << "", 0 >>
NoAttempt == [ made |-> FALSE, size |-> 0, attached |-> FALSE, ok |-> FALSE ]

VARIABLES
  dashboard_logs,       \* the list dashboard_logs, newest first
  daily_alert_buffer,   \* the list daily_alert_buffer
  pc,                   \* pc[r]: position of request r in predict()
  video,                \* video[r]: the file request r uploads
  clipOf,               \* clipOf[r]: the clip extract_frames returned for r
  result,               \* result[r]: <<pred, conf>> returned by predict_video
  record,               \* record[r]: the local dict `record` of request r
  attempt,              \* attempt[r]: the call of send_email_alert made for r
  loop,                 \* request whose handler holds the event loop, 0 if none
  clock,                \* logical time, read by datetime.now()
  digPc,                \* position of the summary_worker thread
  digIdx,               \* index of the list iterator in send_daily_summary
  digLines,             \* the lines collected so far by send_daily_summary
  digests,              \* history: the digests composed, with the send outcome
  appended,             \* history: every record appended to daily_alert_buffer
  fPc,                  \* position of a call of extract_frames taken alone
  fVideo,               \* the video of that call
  fStart,               \* its local `start`
  fClip,                \* the frames it returns
  tPc,                  \* position of summary_worker's loop, its timing taken alone
  tNow,                 \* datetime.now(), in seconds since midnight of day 0
  tWait,                \* the value of _seconds_until passed to time.sleep
  tWakes,               \* number of times time.sleep has returned
  recentView,           \* the entries the last read of the newest entries returned
  recentLimit,          \* the limit of that read
  recentSize,           \* the length of dashboard_logs when it was made
  homeReads,            \* number of calls of home() dispatched so far
  dashReads,            \* number of calls of dashboard() dispatched so far
  homePc,               \* position of the home() handler in its worker thread
  dashPc,               \* position of the dashboard() handler in its worker thread
  dashIdx,              \* index of the list iterator of dashboard()
  dashRows,             \* the rows dashboard() has built so far
  dashStartLen          \* history: length of dashboard_logs when the iteration began

vars == << dashboard_logs, daily_alert_buffer, pc, video, clipOf, result, record,
           attempt, loop, clock, digPc, digIdx, digLines, digests, appended,
           fPc, fVideo, fStart, fClip, tPc, tNow, tWait, tWakes,
           recentView, recentLimit, recentSize, homeReads, dashReads, homePc,
           dashPc, dashIdx, dashRows, dashStartLen >>

reqVars == << pc, video, clipOf, result, record, attempt, loop >>
digVars == << digPc, digIdx, digLines, digests, clock >>
coreVars == << dashboard_logs, daily_alert_buffer, appended, reqVars, digVars >>
frameVars == << fPc, fVideo, fStart, fClip >>
\* What the request handlers and the summary thread do not touch.
timeVars == << tPc, tNow, tWait, tWakes >>
recentVars == << recentView, recentLimit, recentSize >>
pageVars == << homeReads, dashReads, homePc, dashPc, dashIdx, dashRows, dashStartLen >>
auxVars == << frameVars, timeVars, recentVars, pageVars >>

\* ------------------------------------------------------------ extract_frames
\* need = 1 + (NUM_FRAMES - 1) * FRAME_STEP
Need == 1 + (NUM_FRAMES - 1) * FRAME_STEP

\* Line 73 with the upper end one too far.
StartChoices_off(total) == IF Need > total THEN {0} ELSE 0 .. (total - Need + 1)

\* The values random.randint(0, total - need) can return, or 0 for a short video.
StartChoices(total) == IF Need > total THEN {0} ELSE 0 .. (total - Need)

\* cap.read(): succeeds while the position is below the decodable frames.
ReadOk(v, pos) == pos < v.readable

\* Lines 84-85 left out: no frame is discarded between two kept frames.
SkipReads_none(v, pos, k) == pos

\* The position after the FRAME_STEP - 1 discarded reads that follow a kept frame.
RECURSIVE SkipReads(_, _, _)
SkipReads(v, pos, k) ==
  IF k = 0 THEN pos
  ELSE SkipReads(v, IF ReadOk(v, pos) THEN pos + 1 ELSE pos, k - 1)

\* The for-loop of extract_frames: the source indices of the kept frames.
RECURSIVE ReadLoop(_, _, _, _)
ReadLoop(v, pos, n, frames) ==
  IF n = 0 \/ ~ReadOk(v, pos) THEN frames
  ELSE ReadLoop(v, SkipReads(v, pos + 1, FRAME_STEP - 1), n - 1, Append(frames, pos))

\* Lines 88-89 left out: the frames read are returned as they are.
PadZeros_none(frames) == frames

\* The while-loop of extract_frames: pad with zero frames up to NUM_FRAMES.
RECURSIVE PadZeros(_)
PadZeros(frames) ==
  IF Len(frames) < NUM_FRAMES THEN PadZeros(Append(frames, ZeroFrame)) ELSE frames

extract_frames(v, start) == PadZeros(ReadLoop(v, start, NUM_FRAMES, << >>))

\* ------------------------------------------------------------------ predict
\* round(conf, 3), in units of 1/10000: to the nearest multiple of 10, ties to
\* the even thousandth.
Round3(conf) ==
  LET q == conf \div 10
      rem == conf % 10
  IN  IF rem > 5 \/ (rem = 5 /\ q % 2 = 1) THEN (q + 1) * 10 ELSE q * 10

\* The dict built at lines 443-449.
MakeRecord(now, filename, pred, conf) ==
  [ time |-> now, filename |-> filename, prediction |-> pred,
    confidence |-> Round3(conf), alert |-> "NO" ]

\* Line 451 with a strict comparison.
ShouldAlert_strict(pred, conf) == pred = "suspicious" /\ conf > ALERT_THRESHOLD

\* The condition of line 451.
ShouldAlert(pred, conf) == pred = "suspicious" /\ conf >= ALERT_THRESHOLD

\* Line 125 with a strict comparison.
Attaches_strict(size) == size < MAX_ATTACHMENT_MB * MB

\* The condition of line 125: size_mb = getsize / (1024 * 1024) <= MAX_ATTACHMENT_MB.
Attaches(size) == size <= MAX_ATTACHMENT_MB * MB

\* record["alert"] = "SENT"; record.copy()
SentRecord(rec) == [rec EXCEPT !.alert = "SENT"]

Min(a, b) == IF a <= b THEN a ELSE b

\* Line 456 with list.append in the place of list.insert(0, ...).
InsertHead_tail(list, rec) == Append(list, rec)

\* dashboard_logs.insert(0, record), line 456.
InsertHead(list, rec) == << rec >> \o list

\* list[:limit], line 164: the first min(limit, len) entries.
Recent(list, limit) == SubSeq(list, 1, Min(limit, Len(list)))

\* The filename of request r's upload; uploads are named apart by the request.
FilenameOf(r) == r

InitCore ==
  /\ dashboard_logs = << >>
  /\ daily_alert_buffer = << >>
  /\ pc = [r \in Reqs |-> "new"]
  /\ video = [r \in Reqs |-> NoVideo]
  /\ clipOf = [r \in Reqs |-> << >>]
  /\ result = [r \in Reqs |-> NoResult]
  /\ record = [r \in Reqs |-> NoRecord]
  /\ attempt = [r \in Reqs |-> NoAttempt]
  /\ loop = 0
  /\ clock = 0
  /\ digPc = "sleep"
  /\ digIdx = 0
  /\ digLines = << >>
  /\ digests = << >>
  /\ appended = << >>

\* No call of extract_frames is being followed on its own.
FramesIdle ==
  /\ fPc = "idle"
  /\ fVideo = NoVideo
  /\ fStart = 0
  /\ fClip = << >>

\* The timing of summary_worker is not being followed on its own.
TimeIdle ==
  /\ tPc = "idle"
  /\ tNow = 0
  /\ tWait = 0
  /\ tWakes = 0

\* No page has read dashboard_logs.
RecentIdle ==
  /\ recentView = << >>
  /\ recentLimit = 0
  /\ recentSize = 0

\* No page request has arrived.
PagesIdle ==
  /\ homeReads = 0
  /\ dashReads = 0
  /\ homePc = "idle"
  /\ dashPc = "idle"
  /\ dashIdx = 0
  /\ dashRows = << >>
  /\ dashStartLen = 0

Init ==
  /\ InitCore
  /\ FramesIdle
  /\ TimeIdle
  /\ RecentIdle
  /\ PagesIdle

\* The handler of request r returns or is left by an exception: its locals
\* are gone and the event loop is free for the next handler.
Return(r) ==
  /\ video' = [video EXCEPT ![r] = NoVideo]
  /\ clipOf' = [clipOf EXCEPT ![r] = << >>]
  /\ result' = [result EXCEPT ![r] = NoResult]
  /\ record' = [record EXCEPT ![r] = NoRecord]
  /\ attempt' = [attempt EXCEPT ![r] = NoAttempt]
  /\ loop' = 0

\* Lines 437-440: the upload is written to the temp file; the handler waits
\* at `await file.read()`.  Requests are numbered in their order of arrival.
PredictArrive(r) ==
  /\ pc[r] = "new"
  /\ \A q \in Reqs : q < r => pc[q] # "new"
  /\ pc' = [pc EXCEPT ![r] = "ready"]
  /\ UNCHANGED << dashboard_logs, daily_alert_buffer, video, clipOf, result, record,
                  attempt, loop, appended >>
  /\ UNCHANGED digVars
  /\ UNCHANGED auxVars

\* The event loop resumes the handler; line 94: clip = extract_frames(temp),
\* on the file that was uploaded.
PredictExtract(r) ==
  /\ pc[r] = "ready"
  /\ loop = 0
  /\ loop' = r
  /\ \E v \in Videos : \E start \in StartChoices(v.total) :
       /\ video' = [video EXCEPT ![r] = v]
       /\ clipOf' = [clipOf EXCEPT ![r] = extract_frames(v, start)]
  /\ pc' = [pc EXCEPT ![r] = "infer"]
  /\ UNCHANGED << dashboard_logs, daily_alert_buffer, result, record,
                  attempt, appended >>
  /\ UNCHANGED digVars
  /\ UNCHANGED auxVars

\* Lines 95-99 and 443-451: the two models run on the clip and return a label
\* and a confidence; the record is built and the alert condition evaluated.
PredictInfer(r) ==
  /\ pc[r] = "infer"
  /\ \E o \in Outcomes :
       /\ result' = [result EXCEPT ![r] = o]
       /\ record' = [record EXCEPT ![r] = MakeRecord(clock, FilenameOf(r), o[1], o[2])]
       /\ pc' = [pc EXCEPT ![r] = IF ShouldAlert(o[1], o[2]) THEN "send" ELSE "insert"]
  /\ clipOf' = [clipOf EXCEPT ![r] = << >>]
  /\ UNCHANGED << dashboard_logs, daily_alert_buffer, video, attempt, loop, appended >>
  /\ UNCHANGED digVars
  /\ UNCHANGED auxVars

\* Lines 95-97 raising, with the record logged on the way out.
PredictRaise_logged(r) ==
  /\ pc[r] = "infer"
  /\ pc' = [pc EXCEPT ![r] = "inferError"]
  /\ dashboard_logs' = << MakeRecord(clock, FilenameOf(r), "", 0) >> \o dashboard_logs
  /\ Return(r)
  /\ UNCHANGED << daily_alert_buffer, appended >>
  /\ UNCHANGED digVars
  /\ UNCHANGED auxVars

\* Lines 95-97 raising (the feature extractor or the classifier): the
\* exception leaves predict() at line 442 and the framework answers 500; the
\* event loop is free again.
PredictRaise(r) ==
  /\ pc[r] = "infer"
  /\ pc' = [pc EXCEPT ![r] = "inferError"]
  /\ Return(r)
  /\ UNCHANGED << dashboard_logs, daily_alert_buffer, appended >>
  /\ UNCHANGED digVars
  /\ UNCHANGED auxVars

\* Line 452, send_email_alert returning: the message is composed, the file
\* attached when small enough, and _smtp_send delivers it.
PredictSendOk(r) ==
  /\ pc[r] = "send"
  /\ \E size \in FileSizes :
       attempt' = [attempt EXCEPT ![r] =
         [made |-> TRUE, size |-> size, attached |-> Attaches(size), ok |-> TRUE]]
  /\ pc' = [pc EXCEPT ![r] = "append"]
  /\ UNCHANGED << dashboard_logs, daily_alert_buffer, video, clipOf, result, record,
                  loop, appended >>
  /\ UNCHANGED digVars
  /\ UNCHANGED auxVars

\* Line 452 with the exception of _smtp_send swallowed: the handler goes on
\* to lines 453-454 as after a delivery.
PredictSendFail_swallowed(r) ==
  /\ pc[r] = "send"
  /\ \E size \in FileSizes :
       attempt' = [attempt EXCEPT ![r] =
         [made |-> TRUE, size |-> size, attached |-> Attaches(size), ok |-> FALSE]]
  /\ pc' = [pc EXCEPT ![r] = "append"]
  /\ UNCHANGED << dashboard_logs, daily_alert_buffer, video, clipOf, result, record,
                  loop, appended >>
  /\ UNCHANGED digVars
  /\ UNCHANGED auxVars

\* Line 452, _smtp_send raising: nothing in predict() or send_email_alert
\* catches it, so the handler ends there and the framework answers 500.
PredictSendFail(r) ==
  /\ pc[r] = "send"
  /\ pc' = [pc EXCEPT ![r] = "sendError"]
  /\ Return(r)
  /\ UNCHANGED << dashboard_logs, daily_alert_buffer, appended >>
  /\ UNCHANGED digVars
  /\ UNCHANGED auxVars

\* Lines 453-454 with the copy appended twice.
PredictAppend_twice(r) ==
  /\ pc[r] = "append"
  /\ record' = [record EXCEPT ![r] = SentRecord(record[r])]
  /\ daily_alert_buffer' =
       Append(Append(daily_alert_buffer, SentRecord(record[r])), SentRecord(record[r]))
  /\ appended' = Append(Append(appended, SentRecord(record[r])), SentRecord(record[r]))
  /\ pc' = [pc EXCEPT ![r] = "insert"]
  /\ UNCHANGED << dashboard_logs, video, clipOf, result, attempt, loop >>
  /\ UNCHANGED digVars
  /\ UNCHANGED auxVars

\* Lines 453-454.
PredictAppend(r) ==
  /\ pc[r] = "append"
  /\ record' = [record EXCEPT ![r] = SentRecord(record[r])]
  /\ daily_alert_buffer' = Append(daily_alert_buffer, SentRecord(record[r]))
  /\ appended' = Append(appended, SentRecord(record[r]))
  /\ pc' = [pc EXCEPT ![r] = "insert"]
  /\ UNCHANGED << dashboard_logs, video, clipOf, result, attempt, loop >>
  /\ UNCHANGED digVars
  /\ UNCHANGED auxVars

\* Line 456 with the record put at the end of the list.
PredictInsert_tail(r) ==
  /\ pc[r] = "insert"
  /\ dashboard_logs' = Append(dashboard_logs, record[r])
  /\ pc' = [pc EXCEPT ![r] = "done"]
  /\ Return(r)
  /\ UNCHANGED << daily_alert_buffer, appended >>
  /\ UNCHANGED digVars
  /\ UNCHANGED auxVars

\* Lines 456-457 and the return of the response.
PredictInsert(r) ==
  /\ pc[r] = "insert"
  /\ dashboard_logs' = InsertHead(dashboard_logs, record[r])
  /\ pc' = [pc EXCEPT ![r] = "done"]
  /\ Return(r)
  /\ UNCHANGED << daily_alert_buffer, appended >>
  /\ UNCHANGED digVars
  /\ UNCHANGED auxVars

\* ------------------------------------------------------------ summary_worker
\* Line 141: the text of one line of the digest.
DigestLine(rec) ==
  [ time |-> rec.time, filename |-> rec.filename, confidence |-> rec.confidence ]

\* Line 155: time.sleep returns at the configured hour; time has passed.
DigestWake ==
  /\ digPc = "sleep"
  /\ clock < MaxCycles
  /\ clock' = clock + 1
  /\ digPc' = "check"
  /\ UNCHANGED << digIdx, digLines, digests >>
  /\ UNCHANGED << dashboard_logs, daily_alert_buffer, appended >>
  /\ UNCHANGED reqVars
  /\ UNCHANGED auxVars

\* Lines 133-134: an empty buffer ends the cycle; the thread sleeps again.
DigestSkip ==
  /\ digPc = "check"
  /\ daily_alert_buffer = << >>
  /\ digPc' = "sleep"
  /\ UNCHANGED << digIdx, digLines, digests, clock >>
  /\ UNCHANGED << dashboard_logs, daily_alert_buffer, appended >>
  /\ UNCHANGED reqVars
  /\ UNCHANGED auxVars

\* Lines 133-140 with the iteration starting at the second record.
DigestBegin_skipFirst ==
  /\ digPc = "check"
  /\ daily_alert_buffer # << >>
  /\ digPc' = "iter"
  /\ digIdx' = 1
  /\ digLines' = << >>
  /\ UNCHANGED << digests, clock >>
  /\ UNCHANGED << dashboard_logs, daily_alert_buffer, appended >>
  /\ UNCHANGED reqVars
  /\ UNCHANGED auxVars

\* Lines 133-140: a non-empty buffer; the message is started and the list
\* iterator created.
DigestBegin ==
  /\ digPc = "check"
  /\ daily_alert_buffer # << >>
  /\ digPc' = "iter"
  /\ digIdx' = 0
  /\ digLines' = << >>
  /\ UNCHANGED << digests, clock >>
  /\ UNCHANGED << dashboard_logs, daily_alert_buffer, appended >>
  /\ UNCHANGED reqVars
  /\ UNCHANGED auxVars

\* Lines 140-141: one turn of `for r in daily_alert_buffer`.  The iterator
\* compares its index with the current length of the list at every turn.
DigestIterate ==
  /\ digPc = "iter"
  /\ digIdx < Len(daily_alert_buffer)
  /\ digLines' = Append(digLines, DigestLine(daily_alert_buffer[digIdx + 1]))
  /\ digIdx' = digIdx + 1
  /\ UNCHANGED << digPc, digests, clock >>
  /\ UNCHANGED << dashboard_logs, daily_alert_buffer, appended >>
  /\ UNCHANGED reqVars
  /\ UNCHANGED auxVars

\* Lines 140 and 142: the iterator is exhausted; the lines become the content
\* of the message.
DigestCompose ==
  /\ digPc = "iter"
  /\ digIdx >= Len(daily_alert_buffer)
  /\ digPc' = "send"
  /\ UNCHANGED << digIdx, digLines, digests, clock >>
  /\ UNCHANGED << dashboard_logs, daily_alert_buffer, appended >>
  /\ UNCHANGED reqVars
  /\ UNCHANGED auxVars

\* Line 143, _smtp_send returning.
DigestSendOk ==
  /\ digPc = "send"
  /\ digests' = Append(digests, [lines |-> digLines, ok |-> TRUE])
  /\ digPc' = "clear"
  /\ UNCHANGED << digIdx, digLines, clock >>
  /\ UNCHANGED << dashboard_logs, daily_alert_buffer, appended >>
  /\ UNCHANGED reqVars
  /\ UNCHANGED auxVars

\* Line 143 raising, with the exception taken to the event loop, which stops
\* serving requests.
DigestSendFail_stopsLoop ==
  /\ digPc = "send"
  /\ digests' = Append(digests, [lines |-> digLines, ok |-> FALSE])
  /\ digPc' = "dead"
  /\ loop' = MaxReqs + 1
  /\ UNCHANGED << digIdx, digLines, clock >>
  /\ UNCHANGED << dashboard_logs, daily_alert_buffer, appended >>
  /\ UNCHANGED << pc, video, clipOf, result, record, attempt >>
  /\ UNCHANGED auxVars

\* Line 143, _smtp_send raising: neither send_daily_summary nor
\* summary_worker catches it, so the thread's target returns by exception and
\* the thread ends.
DigestSendFail ==
  /\ digPc = "send"
  /\ digests' = Append(digests, [lines |-> digLines, ok |-> FALSE])
  /\ digPc' = "dead"
  /\ UNCHANGED << digIdx, digLines, clock >>
  /\ UNCHANGED << dashboard_logs, daily_alert_buffer, appended >>
  /\ UNCHANGED reqVars
  /\ UNCHANGED auxVars

\* Line 144, then back to line 155.
DigestClear ==
  /\ digPc = "clear"
  /\ daily_alert_buffer' = << >>
  /\ digPc' = "sleep"
  /\ digIdx' = 0
  /\ digLines' = << >>
  /\ UNCHANGED << digests, clock >>
  /\ UNCHANGED << dashboard_logs, appended >>
  /\ UNCHANGED reqVars
  /\ UNCHANGED auxVars

Next ==
  \/ \E r \in Reqs : PredictArrive(r)
  \/ \E r \in Reqs : PredictExtract(r)
  \/ \E r \in Reqs : PredictInfer(r)
  \/ \E r \in Reqs : PredictRaise(r)
  \/ \E r \in Reqs : PredictSendOk(r)
  \/ \E r \in Reqs : PredictSendFail(r)
  \/ \E r \in Reqs : PredictAppend(r)
  \/ \E r \in Reqs : PredictInsert(r)
  \/ DigestWake
  \/ DigestSkip
  \/ DigestBegin
  \/ DigestIterate
  \/ DigestCompose
  \/ DigestSendOk
  \/ DigestSendFail
  \/ DigestClear

Spec == Init /\ [][Next]_vars

\* ---------------------------------------------- extract_frames taken alone
\* The videos extract_frames is followed on: every reported frame count and
\* every number of frames that decode, up to MaxTotal.
FrameVideos == [ total : 0 .. MaxTotal, readable : 0 .. MaxTotal ]

\* Lines 69-74: the capture is opened, the frame count read and the start
\* drawn and set.
FramesOpen ==
  /\ fPc = "idle"
  /\ \E v \in FrameVideos : \E start \in StartChoices(v.total) :
       /\ fVideo' = v
       /\ fStart' = start
  /\ fPc' = "opened"
  /\ UNCHANGED fClip
  /\ UNCHANGED coreVars
  /\ UNCHANGED timeVars
  /\ UNCHANGED recentVars
  /\ UNCHANGED pageVars

\* Lines 76-91: the frames are read and padded, and returned.
FramesRead ==
  /\ fPc = "opened"
  /\ fClip' = extract_frames(fVideo, fStart)
  /\ fPc' = "returned"
  /\ UNCHANGED << fVideo, fStart >>
  /\ UNCHANGED coreVars
  /\ UNCHANGED timeVars
  /\ UNCHANGED recentVars
  /\ UNCHANGED pageVars

\* The caller is done with the clip.
FramesDone ==
  /\ fPc = "returned"
  /\ fPc' = "idle"
  /\ fVideo' = NoVideo
  /\ fStart' = 0
  /\ fClip' = << >>
  /\ UNCHANGED coreVars
  /\ UNCHANGED timeVars
  /\ UNCHANGED recentVars
  /\ UNCHANGED pageVars

NextFrames == FramesOpen \/ FramesRead \/ FramesDone

SpecFrames == Init /\ [][NextFrames]_vars

\* ------------------------------------- the timing of summary_worker alone
\* Lines 146-151 with `nxt < now`: the hour itself counts as not yet passed.
seconds_until_strict(hour, now) ==
  LET nxt == (now - (now % DaySeconds)) + hour * HourSeconds
  IN  IF nxt < now THEN nxt + DaySeconds - now ELSE nxt - now

\* _seconds_until(hour), lines 146-151, at the time `now` in whole seconds:
\* nxt is today at hour:00:00, moved a day on when it is not after now.
seconds_until(hour, now) ==
  LET nxt == (now - (now % DaySeconds)) + hour * HourSeconds
  IN  IF nxt <= now THEN nxt + DaySeconds - now ELSE nxt - now

\* By how much later than asked the loop is back at line 155: time.sleep
\* returning late, and the time send_daily_summary takes.
Lateness == { 0, 1, 90 }

\* The thread starts at any second of day 0.
InitTime ==
  /\ InitCore
  /\ FramesIdle
  /\ RecentIdle
  /\ PagesIdle
  /\ tPc = "loop"
  /\ tNow \in 0 .. (DaySeconds - 1)
  /\ tWait = 0
  /\ tWakes = 0

\* Line 155: _seconds_until(DAILY_SUMMARY_HOUR) is evaluated and time.sleep entered.
TimeCompute ==
  /\ tPc = "loop"
  /\ tWait' = seconds_until(DAILY_SUMMARY_HOUR, tNow)
  /\ tPc' = "sleep"
  /\ UNCHANGED << tNow, tWakes >>
  /\ UNCHANGED coreVars
  /\ UNCHANGED frameVars
  /\ UNCHANGED recentVars
  /\ UNCHANGED pageVars

\* Lines 155-156: time.sleep returns, send_daily_summary runs, and the loop
\* is back at line 155.
TimeWake ==
  /\ tPc = "sleep"
  /\ \E late \in Lateness :
       /\ tNow + tWait + late < MaxDays * DaySeconds
       /\ tNow' = tNow + tWait + late
  /\ tWakes' = tWakes + 1
  /\ tWait' = 0
  /\ tPc' = "loop"
  /\ UNCHANGED coreVars
  /\ UNCHANGED frameVars
  /\ UNCHANGED recentVars
  /\ UNCHANGED pageVars

NextTime == TimeCompute \/ TimeWake

SpecTime == InitTime /\ [][NextTime]_vars

\* -------------------------------------------- dashboard_logs taken alone
\* Lines 443-456 for the n-th detection: its record is inserted into
\* dashboard_logs.  The n-th upload is named n.
LogRecord ==
  /\ Len(dashboard_logs) < MaxLog
  /\ LET n == Len(dashboard_logs) + 1
     IN  dashboard_logs' =
           InsertHead(dashboard_logs, MakeRecord(clock, n, "not_suspicious", 9500))
  /\ UNCHANGED << daily_alert_buffer, appended, reqVars, digVars >>
  /\ UNCHANGED << frameVars, timeVars, recentVars, pageVars >>

\* Line 164 for a limit: the newest entries are read.
LogRecent ==
  /\ \E limit \in 0 .. MaxLog :
       /\ recentView' = Recent(dashboard_logs, limit)
       /\ recentLimit' = limit
  /\ recentSize' = Len(dashboard_logs)
  /\ UNCHANGED coreVars
  /\ UNCHANGED << frameVars, timeVars, pageVars >>

NextLog == LogRecord \/ LogRecent

SpecLog == Init /\ [][NextLog]_vars

\* ------------------------------------------------- the pages: home, dashboard
\* home() and dashboard() are plain `def` handlers: the event loop hands each
\* call to a worker thread, where it runs beside the event loop's thread.

\* Lines 597-605: the cells of a row of the table, in the order of the columns.
Row(rec) == << rec.time, rec.filename, rec.prediction, rec.confidence, rec.alert >>

\* Line 162-163: the event loop dispatches a call of home() to a worker thread.
HomeBegin ==
  /\ loop = 0
  /\ homeReads + dashReads < MaxReads
  /\ homePc = "idle"
  /\ homePc' = "run"
  /\ homeReads' = homeReads + 1
  /\ UNCHANGED << dashReads, dashPc, dashIdx, dashRows, dashStartLen >>
  /\ UNCHANGED coreVars
  /\ UNCHANGED << frameVars, timeVars, recentVars >>

\* Line 164 with the entries taken off the list as they are read.
HomeRead_consuming ==
  /\ homePc = "run"
  /\ recentView' = Recent(dashboard_logs, HOME_LIMIT)
  /\ recentLimit' = HOME_LIMIT
  /\ recentSize' = Len(dashboard_logs)
  /\ dashboard_logs' =
       SubSeq(dashboard_logs, Min(HOME_LIMIT, Len(dashboard_logs)) + 1, Len(dashboard_logs))
  /\ homePc' = "idle"
  /\ UNCHANGED << homeReads, dashReads, dashPc, dashIdx, dashRows, dashStartLen >>
  /\ UNCHANGED << daily_alert_buffer, appended, reqVars, digVars >>
  /\ UNCHANGED << frameVars, timeVars >>

\* Lines 164-177: recent = dashboard_logs[:10], one operation on the list,
\* and the page is returned.
HomeRead ==
  /\ homePc = "run"
  /\ recentView' = Recent(dashboard_logs, HOME_LIMIT)
  /\ recentLimit' = HOME_LIMIT
  /\ recentSize' = Len(dashboard_logs)
  /\ homePc' = "idle"
  /\ UNCHANGED << homeReads, dashReads, dashPc, dashIdx, dashRows, dashStartLen >>
  /\ UNCHANGED coreVars
  /\ UNCHANGED << frameVars, timeVars >>

\* Lines 593-596: the event loop dispatches a call of dashboard() to a worker
\* thread; the list iterator is created.
DashBegin ==
  /\ loop = 0
  /\ homeReads + dashReads < MaxReads
  /\ dashPc = "idle"
  /\ dashPc' = "iter"
  /\ dashReads' = dashReads + 1
  /\ dashIdx' = 0
  /\ dashRows' = << >>
  /\ dashStartLen' = Len(dashboard_logs)
  /\ UNCHANGED << homeReads, homePc >>
  /\ UNCHANGED coreVars
  /\ UNCHANGED << frameVars, timeVars, recentVars >>

\* Lines 596-606: one turn of `for r in dashboard_logs`.  The iterator
\* compares its index with the current length of the list at every turn.
DashIterate ==
  /\ dashPc = "iter"
  /\ dashIdx < Len(dashboard_logs)
  /\ dashRows' = Append(dashRows, Row(dashboard_logs[dashIdx + 1]))
  /\ dashIdx' = dashIdx + 1
  /\ UNCHANGED << homeReads, dashReads, homePc, dashPc, dashStartLen >>
  /\ UNCHANGED coreVars
  /\ UNCHANGED << frameVars, timeVars, recentVars >>

\* Lines 596 and 608: the iterator is exhausted and the page is returned.
DashReturn ==
  /\ dashPc = "iter"
  /\ dashIdx >= Len(dashboard_logs)
  /\ dashPc' = "idle"
  /\ dashIdx' = 0
  /\ dashRows' = << >>
  /\ dashStartLen' = 0
  /\ UNCHANGED << homeReads, dashReads, homePc >>
  /\ UNCHANGED coreVars
  /\ UNCHANGED << frameVars, timeVars, recentVars >>

\* The request handlers and the page handlers, the summary thread asleep.
NextPages ==
  \/ \E r \in Reqs : PredictArrive(r)
  \/ \E r \in Reqs : PredictExtract(r)
  \/ \E r \in Reqs : PredictInfer(r)
  \/ \E r \in Reqs : PredictRaise(r)
  \/ \E r \in Reqs : PredictSendOk(r)
  \/ \E r \in Reqs : PredictSendFail(r)
  \/ \E r \in Reqs : PredictAppend(r)
  \/ \E r \in Reqs : PredictInsert(r)
  \/ HomeBegin
  \/ HomeRead
  \/ DashBegin
  \/ DashIterate
  \/ DashReturn

SpecPages == Init /\ [][NextPages]_vars

\* ================================================================== claims
\* The records of request r in a list.
EntriesOf(list, r) == { i \in 1 .. Len(list) : list[i].filename = FilenameOf(r) }

\* The alert rule as the specification words it, on the unrounded confidence.
MeetsThreshold(r) == result[r][1] = "suspicious" /\ result[r][2] >= ALERT_THRESHOLD

\* C1: for every detection result, the immediate alert is dispatched if and
\* only if the label is suspicious and the unrounded confidence is at least
\* ALERT_THRESHOLD: a result below the threshold, or not suspicious, reaches
\* the log insert with status NO, no send made and nothing of it in
\* daily_alert_buffer; a result at or above it is at the send, or past it
\* with the send made and a status other than NO.
C1_AlertIffThreshold ==
  \A r \in Reqs :
    /\ pc[r] \in { "send", "append" } => MeetsThreshold(r)
    /\ pc[r] = "insert" =>
         /\ attempt[r].made <=> MeetsThreshold(r)
         /\ record[r].alert # "NO" <=> MeetsThreshold(r)
         /\ ~MeetsThreshold(r) =>
              /\ EntriesOf(daily_alert_buffer, r) = {}
              /\ EntriesOf(appended, r) = {}

\* A suspicious result at 0.79 was logged with status NO, and a suspicious
\* result at exactly 0.80 has had its alert sent.
C1_Witness ==
  /\ \E i \in 1 .. Len(dashboard_logs) :
       /\ dashboard_logs[i].prediction = "suspicious"
       /\ dashboard_logs[i].confidence = 7900
       /\ dashboard_logs[i].alert = "NO"
  /\ \E r \in Reqs :
       /\ pc[r] = "insert"
       /\ result[r] = << "suspicious", 8000 >>
       /\ attempt[r].made
       /\ record[r].alert = "SENT"

\* C2: a failure of the immediate alert's send does not abort the request:
\* no request ends by the exception of the send (it would go on to the log
\* insert with status FAILED).
C2_SendFailureDoesNotAbortRequest ==
  \A r \in Reqs : pc[r] # "sendError"

\* The lines of the digests composed so far.
Enumerated ==
  UNION { { digests[d].lines[i] : i \in 1 .. Len(digests[d].lines) } : d \in 1 .. Len(digests) }

\* The digest line of a buffered record: its time, filename and confidence.
LineOf(rec) == [ time |-> rec.time, filename |-> rec.filename, confidence |-> rec.confidence ]

\* C3: under every interleaving of the request handlers' appends and the
\* summary thread's read-send-clear, no record leaves daily_alert_buffer
\* without having been enumerated in a composed digest.
C3_NoRecordLost ==
  [][ \A i \in 1 .. Len(daily_alert_buffer) :
        (\A j \in 1 .. Len(daily_alert_buffer') :
            daily_alert_buffer'[j] # daily_alert_buffer[i])
        => LineOf(daily_alert_buffer[i]) \in Enumerated ]_vars

\* C4: every digest cycle clears daily_alert_buffer before the thread leaves
\* the cycle, whether the send succeeded or failed: once the thread is out of
\* send_daily_summary, no record that a digest enumerated is still buffered.
C4_ClearedAfterEveryCycle ==
  digPc \in { "sleep", "dead" } =>
    \A i \in 1 .. Len(daily_alert_buffer) : LineOf(daily_alert_buffer[i]) \notin Enumerated

\* C5: the summary thread never ends: after any cycle, including one whose
\* send raised, the thread is alive.
C5_DigestTaskAlive == digPc # "dead"

\* C6: daily_alert_buffer grows only by the handler that is at lines 453-454
\* after a send that succeeded, by exactly one record that carries the time,
\* filename and confidence of that handler's record with status SENT, and the
\* handler's record gets status SENT; a handler that did not dispatch has
\* appended nothing, and every logged entry has status SENT exactly when one
\* record was appended for it.
C6_AppendOnlyAfterSuccessfulSend ==
  /\ [][ daily_alert_buffer' # daily_alert_buffer /\ daily_alert_buffer' # << >> =>
          \E r \in Reqs :
            /\ pc[r] = "append"
            /\ attempt[r].made /\ attempt[r].ok
            /\ Len(daily_alert_buffer') = Len(daily_alert_buffer) + 1
            /\ SubSeq(daily_alert_buffer', 1, Len(daily_alert_buffer)) = daily_alert_buffer
            /\ LET a == daily_alert_buffer'[Len(daily_alert_buffer')]
               IN  /\ a.time = record[r].time
                   /\ a.filename = record[r].filename
                   /\ a.confidence = record[r].confidence
                   /\ a.alert = "SENT"
            /\ record'[r].alert = "SENT" ]_vars
  /\ [](\A r \in Reqs :
         /\ pc[r] = "insert" /\ attempt[r].made /\ attempt[r].ok =>
              /\ record[r].alert = "SENT"
              /\ Cardinality(EntriesOf(appended, r)) = 1
         /\ pc[r] = "insert" /\ ~attempt[r].made =>
              /\ record[r].alert = "NO"
              /\ EntriesOf(appended, r) = {}
         /\ pc[r] \in { "sendError", "inferError" } => EntriesOf(appended, r) = {}
         /\ \A i \in EntriesOf(dashboard_logs, r) :
              Cardinality(EntriesOf(appended, r)) =
                IF dashboard_logs[i].alert = "SENT" THEN 1 ELSE 0)

\* A request whose alert was delivered has appended its record and is about
\* to be logged with status SENT, while an earlier request that did not
\* dispatch is logged and has left the buffer alone.
C6_Witness ==
  \E r \in Reqs :
    /\ pc[r] = "insert"
    /\ attempt[r].ok
    /\ record[r].alert = "SENT"
    /\ daily_alert_buffer = << record[r] >>
    /\ \E i \in 1 .. Len(dashboard_logs) : dashboard_logs[i].alert = "NO"

\* C7: when an alert is dispatched the video is attached if and only if its
\* size is at most 22 MB (a file of exactly 22 MB is attached), and the send
\* is made whatever the size: every handler past line 452 has made the send.
C7_AttachIffWithinCap ==
  \A r \in Reqs :
    /\ attempt[r].made => (attempt[r].attached <=> attempt[r].size <= 22 * 1024 * 1024)
    /\ pc[r] = "append" => attempt[r].made /\ attempt[r].ok

\* An alert for a 23 MB file was delivered without the attachment.
C7_Witness ==
  \E r \in Reqs :
    /\ pc[r] = "append"
    /\ attempt[r].ok
    /\ attempt[r].size = 23 * 1024 * 1024
    /\ ~attempt[r].attached

\* The lines a digest of the list would hold, in the list's order.
LinesOf(list) == [ i \in 1 .. Len(list) |-> LineOf(list[i]) ]

\* C8: on each wake, a non-empty buffer gives exactly one digest, whose lines
\* are the records of the buffer (time, filename, confidence), each once and
\* in the buffer's order; an empty buffer gives no message.
C8_DigestListsBuffer ==
  /\ [][ /\ (digPc = "iter" /\ digPc' = "send")
              => (digLines' = LinesOf(daily_alert_buffer))
         /\ (digests' # digests)
              => (/\ digPc = "send"
                  /\ Len(digests') = Len(digests) + 1
                  /\ digests'[Len(digests')].lines = digLines
                  /\ digLines # << >>)
         /\ (digPc = "check" /\ daily_alert_buffer = << >>)
              => (/\ digests' = digests
                  /\ digPc' \in { "check", "sleep" }) ]_vars
  /\ [](Len(digests) <= clock)

\* A digest of two records has been composed.
C8_Witness ==
  /\ digPc = "send"
  /\ Len(digLines) = 2
  /\ Len(daily_alert_buffer) = 2

\* C9: a request whose inference raises leaves dashboard_logs and
\* daily_alert_buffer as they were, sends no alert, and has no entry in
\* either list afterwards.
C9_FailedInferenceNoEffect ==
  /\ [][ \A r \in Reqs :
           (pc[r] # "inferError" /\ pc'[r] = "inferError") =>
             /\ dashboard_logs' = dashboard_logs
             /\ daily_alert_buffer' = daily_alert_buffer
             /\ appended' = appended
             /\ ~attempt[r].made ]_vars
  /\ [](\A r \in Reqs :
         pc[r] = "inferError" =>
           /\ EntriesOf(dashboard_logs, r) = {}
           /\ EntriesOf(daily_alert_buffer, r) = {}
           /\ EntriesOf(appended, r) = {})

\* The inference of a request has raised while both lists hold the record of
\* an earlier request.
C9_Witness ==
  \E r \in Reqs :
    /\ pc[r] = "inferError"
    /\ Len(dashboard_logs) = 1
    /\ Len(daily_alert_buffer) = 1

\* C10: a video that cannot be opened or yields no frame makes frame
\* extraction fail: its handler never mutates dashboard_logs.
C10_UndecodableNeverLogged ==
  [][ \A r \in Reqs :
        (loop = r /\ video[r].readable = 0) => dashboard_logs' = dashboard_logs ]_vars

\* C11: whatever the frame count of the video and wherever decoding stops,
\* the clip extract_frames returns has exactly 8 frames.
C11_ClipHasNFrames ==
  fPc = "returned" => Len(fClip) = 8

\* A video of 32 frames whose decoding stops after 10: a clip was returned.
C11_Witness ==
  /\ fPc = "returned"
  /\ fVideo = [total |-> 32, readable |-> 10]
  /\ fStart = 3

\* C12: for a video of T frames, 0 < T < 29, sampling starts at frame 0, the
\* kept frames are the source frames 0, 4, 8, ... below T, and zero frames
\* follow them up to 8 frames.
C12_ShortVideoPadded ==
  (fPc = "returned" /\ fVideo.readable = fVideo.total
     /\ 0 < fVideo.total /\ fVideo.total < 1 + 7 * 4) =>
    /\ fStart = 0
    /\ Len(fClip) = 8
    /\ \A i \in 1 .. 8 :
         fClip[i] = IF (i - 1) * 4 < fVideo.total THEN (i - 1) * 4 ELSE ZeroFrame

\* A video of 9 frames gave frames 0, 4 and 8 and five zero frames.
C12_Witness ==
  /\ fPc = "returned"
  /\ fVideo = [total |-> 9, readable |-> 9]
  /\ fClip = << 0, 4, 8, ZeroFrame, ZeroFrame, ZeroFrame, ZeroFrame, ZeroFrame >>

\* C18: for a video of T >= 29 frames the start lies in [0, T - 29] and the
\* 8 kept frames are the source frames start + 4 i, i = 0..7, all below T:
\* none is a zero frame.
C18_LongVideoSampled ==
  (fPc = "returned" /\ fVideo.readable = fVideo.total /\ fVideo.total >= 1 + 7 * 4) =>
    /\ fStart \in 0 .. (fVideo.total - (1 + 7 * 4))
    /\ Len(fClip) = 8
    /\ \A i \in 1 .. 8 :
         /\ fClip[i] = fStart + (i - 1) * 4
         /\ fClip[i] < fVideo.total
         /\ fClip[i] # ZeroFrame

\* A video of 32 frames sampled from frame 3: the last kept frame is frame 31.
C18_Witness ==
  /\ fPc = "returned"
  /\ fVideo = [total |-> 32, readable |-> 32]
  /\ fStart = 3
  /\ fClip[8] = 31

\* C19: the wait d computed at any time satisfies 0 < d <= 24 h, and now + d
\* is 21:00:00 of today when now is before 21:00:00, of tomorrow when now is
\* at or after it.
C19_WaitUntilNextHour ==
  tPc = "sleep" =>
    LET tod == tNow % 86400
        day == tNow \div 86400
    IN  /\ 0 < tWait /\ tWait <= 24 * 3600
        /\ (tNow + tWait) % 86400 = 21 * 3600
        /\ (tNow + tWait) \div 86400 = IF tod < 21 * 3600 THEN day ELSE day + 1

\* The thread woke at 21:00:00 exactly and waits a whole day.
C19_Witness ==
  /\ tPc = "sleep"
  /\ tWakes = 1
  /\ tNow = 21 * 3600
  /\ tWait = 86400

\* C13: after any sequence of insertions the n-th inserted entry is at place
\* size - n + 1 (newest first, earlier entries keep their order), and a read
\* with a limit returns the min(limit, size) newest entries, newest first.
C13_RecentNewestFirst ==
  /\ \A i \in 1 .. Len(dashboard_logs) :
       dashboard_logs[i].filename = Len(dashboard_logs) - i + 1
  /\ Len(recentView) = (IF recentLimit <= recentSize THEN recentLimit ELSE recentSize)
  /\ \A i \in 1 .. Len(recentView) : recentView[i].filename = recentSize - i + 1

\* Twelve entries are recorded and a read with limit 10 returned entries 12
\* down to 3.
C13_Witness ==
  /\ Len(dashboard_logs) = 12
  /\ recentLimit = 10
  /\ recentSize = 12
  /\ Len(recentView) = 10
  /\ recentView[1].filename = 12
  /\ recentView[10].filename = 3

\* The rows a page of the whole list would show, in the list's order.
RowsOf(list) == [ i \in 1 .. Len(list) |-> Row(list[i]) ]

\* C14: every step of home() and of dashboard() leaves dashboard_logs and
\* daily_alert_buffer as they were; a home read made when nothing was inserted
\* since the previous home read returns the same entries as that read; a
\* dashboard read during which nothing was inserted returns the rows of the
\* list, so that two such reads of the same list return the same rows.
C14_ReadsLeaveStoreUnchanged ==
  [][ /\ (homePc' # homePc \/ dashPc' # dashPc \/ dashIdx' # dashIdx)
           => (/\ dashboard_logs' = dashboard_logs
               /\ daily_alert_buffer' = daily_alert_buffer
               /\ appended' = appended)
      /\ (homePc = "run" /\ homePc' = "idle")
           => (/\ Len(recentView') = (IF Len(dashboard_logs) < 10 THEN Len(dashboard_logs) ELSE 10)
               /\ \A i \in 1 .. Len(recentView') : recentView'[i] = dashboard_logs[i]
               /\ (recentLimit = 10 /\ recentSize = Len(dashboard_logs))
                    => (recentView' = recentView))
      /\ (dashPc = "iter" /\ dashPc' = "idle" /\ dashStartLen = Len(dashboard_logs))
           => (dashRows = RowsOf(dashboard_logs)) ]_vars

\* Two home reads were made and the second returned the two logged entries,
\* which are still the whole list, with an alert record still buffered.
C14_Witness ==
  /\ homeReads = 2
  /\ homePc = "idle"
  /\ recentSize = 2
  /\ recentView = dashboard_logs
  /\ Len(daily_alert_buffer) = 1

\* C15: the step by which a request ends in an exception (inference or send)
\* leaves the summary thread where it was, with its digest, its buffer and its
\* clock; the step by which the summary thread ends (its send raised) leaves
\* every request, the event loop and both lists as they were; the thread is
\* only ever ended by its own failed send; and with the thread ended, every
\* request can take its next step: a waiting one is resumed when the event
\* loop is free, a running one goes on.
C15_SeparateFailureDomains ==
  /\ [][ /\ (\E r \in Reqs : /\ pc'[r] \in { "inferError", "sendError" }
                             /\ pc[r] \notin { "inferError", "sendError" })
               => (/\ digPc' = digPc
                   /\ digIdx' = digIdx
                   /\ digLines' = digLines
                   /\ digests' = digests
                   /\ clock' = clock
                   /\ daily_alert_buffer' = daily_alert_buffer)
         /\ (digPc # "dead" /\ digPc' = "dead")
               => (/\ pc' = pc
                   /\ loop' = loop
                   /\ record' = record
                   /\ attempt' = attempt
                   /\ dashboard_logs' = dashboard_logs
                   /\ daily_alert_buffer' = daily_alert_buffer) ]_vars
  /\ [](digPc = "dead" =>
         /\ Len(digests) > 0
         /\ ~digests[Len(digests)].ok
         /\ \A r \in Reqs :
              /\ (pc[r] = "new" /\ \A q \in Reqs : q < r => pc[q] # "new")
                   => ENABLED PredictArrive(r)
              /\ (pc[r] = "ready" /\ loop = 0) => ENABLED PredictExtract(r)
              /\ pc[r] = "infer" => ENABLED PredictInfer(r)
              /\ pc[r] = "send" => ENABLED PredictSendOk(r)
              /\ pc[r] = "append" => ENABLED PredictAppend(r)
              /\ pc[r] = "insert" => ENABLED PredictInsert(r))

\* The summary thread has ended on its failed send, one request has ended on
\* the exception of its own send, and a later request was served and logged.
C15_Witness ==
  /\ digPc = "dead"
  /\ \E r \in Reqs : pc[r] = "sendError"
  /\ \E r \in Reqs : pc[r] = "done"
  /\ Len(dashboard_logs) = 1
  /\ dashboard_logs[1].time > 0

\* C16: while one request is in its inference, every other request that has
\* arrived can be taken up, and a call of home() or of dashboard() can be
\* dispatched.
C16_InferenceIsolated ==
  \A r \in Reqs :
    pc[r] = "infer" =>
      /\ \A q \in Reqs : (q # r /\ pc[q] = "ready") => ENABLED PredictExtract(q)
      /\ (homePc = "idle" /\ homeReads + dashReads < MaxReads) => ENABLED HomeBegin
      /\ (dashPc = "idle" /\ homeReads + dashReads < MaxReads) => ENABLED DashBegin

\* The rows of the k oldest entries of the list: the list grows at its head
\* only, so these are the rows of the list as it was when it had k entries.
RowsWhenSize(list, k) == RowsOf(SubSeq(list, Len(list) - k + 1, Len(list)))

\* C17: the rows dashboard() returns are the rows of dashboard_logs as it was
\* at one instant between the start and the end of the read, no entry twice
\* and none skipped; the entries home() returns are the head of the list at
\* one instant; and an insertion adds its record and keeps every entry.
C17_NoTornReadNoLostInsert ==
  [][ /\ (dashPc = "iter" /\ dashPc' = "idle")
           => (\E k \in dashStartLen .. Len(dashboard_logs) :
                 dashRows = RowsWhenSize(dashboard_logs, k))
      /\ (homePc = "run" /\ homePc' = "idle")
           => (recentView' = SubSeq(dashboard_logs, 1,
                               IF Len(dashboard_logs) < 10 THEN Len(dashboard_logs) ELSE 10))
      /\ (\A r \in Reqs :
            (pc[r] = "insert" /\ pc'[r] = "done")
              => (/\ Len(dashboard_logs') = Len(dashboard_logs) + 1
                  /\ dashboard_logs'[1] = record[r]
                  /\ SubSeq(dashboard_logs', 2, Len(dashboard_logs')) = dashboard_logs)) ]_vars

\* C20: when the inference of a request completes, no other request holds a
\* completed inference that is not logged yet (those that completed earlier
\* are in the list already, or ended on their send); until its own record is
\* logged no other request is logged; and its record is then put at the head
\* of the list, above all of them: the later an
\* inference completes the nearer the head its entry is, whatever the order
\* of arrival and whether or not an alert was sent on the way.
C20_LogOrderIsCompletionOrder ==
  [][ \A r \in Reqs :
        /\ (pc[r] = "infer" /\ pc'[r] \in { "send", "insert" })
             => (\A q \in Reqs : q # r => pc[q] \notin { "send", "append", "insert" })
        /\ (pc[r] \in { "send", "append", "insert" })
             => (\A q \in Reqs : (q # r /\ pc'[q] = "done") => pc[q] = "done")
        /\ (pc[r] = "insert" /\ pc'[r] = "done")
             => (dashboard_logs' = << record[r] >> \o dashboard_logs) ]_vars

\* Request 1 arrived first; request 2 was inferred first, sent its alert and
\* was logged; request 1, inferred later, is at the head.
C20_Witness ==
  /\ Len(dashboard_logs) = 2
  /\ dashboard_logs[1].filename = FilenameOf(1)
  /\ dashboard_logs[2].filename = FilenameOf(2)
  /\ dashboard_logs[2].alert = "SENT"

\* The records ever appended to daily_alert_buffer that carry the time,
\* filename and confidence of a log entry.
AlertRecordsOf(e) ==
  { j \in 1 .. Len(appended) :
      /\ appended[j].time = e.time
      /\ appended[j].filename = e.filename
      /\ appended[j].confidence = e.confidence }

\* The log entries with status SENT.
SentEntries == { i \in 1 .. Len(dashboard_logs) : dashboard_logs[i].alert = "SENT" }

\* C21: an entry logged with status SENT comes from a result that is
\* suspicious with an unrounded confidence of at least 0.80; in every state
\* each SENT entry is suspicious and has exactly one record of its time,
\* filename and confidence among those appended to daily_alert_buffer; each
\* not_suspicious entry has status NO; and when no request is between its
\* inference and its return, as many records were appended as there are SENT
\* entries.
C21_SentEntriesAccounted ==
  /\ [][ \A r \in Reqs :
           (pc[r] = "insert" /\ pc'[r] = "done" /\ dashboard_logs'[1].alert = "SENT")
             => (/\ result[r][1] = "suspicious"
                 /\ result[r][2] >= 8000
                 /\ attempt[r].made /\ attempt[r].ok) ]_vars
  /\ [](/\ \A i \in 1 .. Len(dashboard_logs) :
            /\ dashboard_logs[i].alert = "SENT" =>
                 /\ dashboard_logs[i].prediction = "suspicious"
                 /\ Cardinality(AlertRecordsOf(dashboard_logs[i])) = 1
            /\ dashboard_logs[i].prediction = "not_suspicious" =>
                 dashboard_logs[i].alert = "NO"
        /\ (\A r \in Reqs : pc[r] \notin { "infer", "send", "append", "insert" })
             => Len(appended) = Cardinality(SentEntries))

\* Both requests have returned: one is logged SENT with its one record
\* appended, the other is logged not_suspicious with status NO.
C21_Witness ==
  /\ \A r \in Reqs : pc[r] = "done"
  /\ Cardinality(SentEntries) = 1
  /\ Len(appended) = 1
  /\ \E i \in 1 .. Len(dashboard_logs) :
       /\ dashboard_logs[i].prediction = "not_suspicious"
       /\ dashboard_logs[i].alert = "NO"

\* C22: every suspicious log entry whose stored confidence (rounded to three
\* decimals) is at least 0.80 has a status other than NO, and every
\* suspicious entry whose stored confidence is below 0.80 has status NO.
C22_StoredConfidenceMatchesStatus ==
  \A i \in 1 .. Len(dashboard_logs) :
    dashboard_logs[i].prediction = "suspicious" =>
      /\ dashboard_logs[i].confidence >= 8000 => dashboard_logs[i].alert # "NO"
      /\ dashboard_logs[i].confidence < 8000 => dashboard_logs[i].alert = "NO"

====
